---- MODULE Spec2Model ----
(***************************************************************************)
(* Model of generate_icons.py: draw_raindrop (the shape renderer) and main *)
(* (the batch writer), together with the parts of Pillow and of the file   *)
(* system that the two functions act on.                                   *)
(*                                                                         *)
(* Representation.                                                         *)
(*  - A colour specifier (a Python str) is a sequence of one-character     *)
(*    strings, so that parsing "#4A90E2" is computed, not assumed.         *)
(*  - A coordinate computed in floating point (w * 0.22) is kept exactly,  *)
(*    in hundredths of a pixel (w * 22).  For 0 <= size < 90, and for the  *)
(*    three default sizes, truncating the float and truncating the exact   *)
(*    value give the same integer.                                         *)
(*  - An image is its mode, its size, the colour the canvas was filled     *)
(*    with and the polygons drawn on it since; getpixel computes a pixel   *)
(*    from these.  Two images with equal records are pixel-identical.      *)
(*  - A path is the sequence of its components.                            *)
(***************************************************************************)
EXTENDS Integers, Sequences, FiniteSets, TLC

VARIABLES
    dirs,       \* file system: the set of paths that are directories
    files,      \* file system: path -> content, for the regular files
    pc,         \* position of the running main()
    idx,        \* main: index into sizes of the loop variable sz
    img,        \* main: local img
    out_path,   \* main: local out_path
    stdout,     \* lines printed by the running process
    err,        \* the exception that ended the run, or "none"
    run,        \* number of the current invocation of the script
    faulted,    \* history: the environment failed an I/O call in this run
    written,    \* history: sizes whose img.save returned in this run
    start,      \* history: the file system when this run started
    prev,       \* history: how the previous run ended, and the file system then
    args,       \* direct caller of draw_raindrop: the arguments it uses
    ret,        \* direct caller: what its last call returned
    first,      \* history: what the first call with args returned
    calls,      \* history: number of calls made with args
    wroteAt     \* history: value of calls when main last changed the files

vars == <<dirs, files, pc, idx, img, out_path, stdout, err, run, faulted,
          written, start, prev, args, ret, first, calls, wroteAt>>

mainVars == <<pc, idx, img, out_path, stdout, err, run, faulted, written, start, prev>>
callVars == <<args, ret, first, calls, wroteAt>>

----------------------------------------------------------------------------
(* Bounds of the model *)

MaxRuns == 2        \* invocations of the script in a row
MaxSize == 20       \* largest size a direct caller passes to draw_raindrop
MinSize == 3        \* a direct caller passes sizes down to -MinSize
MaxCalls == 3       \* calls a direct caller makes

None == [none |-> TRUE]
IsError(v) == "error" \in DOMAIN v
IsNone(v) == "none" \in DOMAIN v

----------------------------------------------------------------------------
(* Pillow: ImageColor *)

HexChars == <<"0", "1", "2", "3", "4", "5", "6", "7", "8", "9",
              "a", "b", "c", "d", "e", "f">>

\* str.lower(), on the characters a colour specifier of this model can hold
lower(c) ==
    CASE c = "A" -> "a" [] c = "B" -> "b" [] c = "C" -> "c"
      [] c = "D" -> "d" [] c = "E" -> "e" [] c = "F" -> "f"
      [] c = "G" -> "g" [] OTHER -> c

IsHex(c) == \E k \in 1..16 : HexChars[k] = lower(c)
HexVal(c) == (CHOOSE k \in 1..16 : HexChars[k] = lower(c)) - 1

\* ImageColor.getcolor(color, "RGBA"): "#rgb", "#rgba", "#rrggbb", "#rrggbbaa";
\* anything else this model can hold is an unknown colour specifier.
getcolor(color) ==
    IF Len(color) \in {4, 5, 7, 9} /\ color[1] = "#"
       /\ \A k \in 2..Len(color) : IsHex(color[k])
    THEN LET h(k) == HexVal(color[k]) IN
         CASE Len(color) = 4 -> [rgba |-> <<17 * h(2), 17 * h(3), 17 * h(4), 255>>]
           [] Len(color) = 5 -> [rgba |-> <<17 * h(2), 17 * h(3), 17 * h(4), 17 * h(5)>>]
           [] Len(color) = 7 -> [rgba |-> <<16 * h(2) + h(3), 16 * h(4) + h(5),
                                            16 * h(6) + h(7), 255>>]
           [] Len(color) = 9 -> [rgba |-> <<16 * h(2) + h(3), 16 * h(4) + h(5),
                                            16 * h(6) + h(7), 16 * h(8) + h(9)>>]
    ELSE [error |-> "ValueError"]

----------------------------------------------------------------------------
(* Pillow: Image and ImageDraw *)

\* Image.new(mode, size, color): a negative width or height is a ValueError,
\* zero is allowed; the canvas is filled with the parsed colour.
Image_new(mode, size, color) ==
    IF size[1] < 0 \/ size[2] < 0
    THEN [error |-> "ValueError"]
    ELSE LET c == getcolor(color) IN
         IF IsError(c) THEN c
         ELSE [mode |-> mode, size |-> size, bg |-> c.rgba, shapes |-> <<>>]

\* (int) of a coordinate given in hundredths: truncation toward zero
Trunc(h) == IF h >= 0 THEN h \div 100 ELSE -((-h) \div 100)

\* ImageDraw.polygon(xy, fill=...): the fill is parsed, the vertices are cut
\* to integers, the polygon is filled onto the image.
draw_polygon(im, xy, fill) ==
    LET ink == getcolor(fill) IN
    IF IsError(ink) THEN ink
    ELSE [im EXCEPT !.shapes = Append(@,
             [xy |-> [k \in 1..Len(xy) |-> <<Trunc(xy[k][1]), Trunc(xy[k][2])>>],
              fill |-> ink.rgba])]

\* The point <<x, y>> lies on the segment a-b
OnSegment(a, b, x, y) ==
    /\ (b[1] - a[1]) * (y - a[2]) = (b[2] - a[2]) * (x - a[1])
    /\ x >= (IF a[1] < b[1] THEN a[1] ELSE b[1])
    /\ x <= (IF a[1] < b[1] THEN b[1] ELSE a[1])
    /\ y >= (IF a[2] < b[2] THEN a[2] ELSE b[2])
    /\ y <= (IF a[2] < b[2] THEN b[2] ELSE a[2])

\* The ray from <<x, y>> to the right crosses the edge a-b
Crosses(a, b, x, y) ==
    /\ (a[2] > y) # (b[2] > y)
    /\ IF b[2] > a[2]
       THEN (x - a[1]) * (b[2] - a[2]) < (y - a[2]) * (b[1] - a[1])
       ELSE (x - a[1]) * (b[2] - a[2]) > (y - a[2]) * (b[1] - a[1])

\* The filled polygon covers pixel <<x, y>>: on its outline, or inside it
InPolygon(xy, x, y) ==
    LET n == Len(xy)
        nxt(k) == (k % n) + 1
    IN \/ \E k \in 1..n : OnSegment(xy[k], xy[nxt(k)], x, y)
       \/ Cardinality({k \in 1..n : Crosses(xy[k], xy[nxt(k)], x, y)}) % 2 = 1

\* Image.getpixel((x, y)): the fill of the last polygon that covers the pixel,
\* the canvas colour under no polygon; outside the image an IndexError.
getpixel(im, x, y) ==
    IF ~(0 <= x /\ x < im.size[1] /\ 0 <= y /\ y < im.size[2])
    THEN [error |-> "IndexError"]
    ELSE LET over == {k \in 1..Len(im.shapes) : InPolygon(im.shapes[k].xy, x, y)} IN
         IF over = {} THEN [rgba |-> im.bg]
         ELSE [rgba |-> im.shapes[CHOOSE k \in over : \A j \in over : j <= k].fill]

----------------------------------------------------------------------------
(* generate_icons.py: draw_raindrop *)

DefaultBg == <<"#", "4", "A", "9", "0", "E", "2">>
DefaultFg == <<"#", "F", "F", "F", "F", "F", "F">>

\* Mutant of points: the bottom point typed as 1.05 instead of 0.95
points_below(w, h) ==
    << <<w * 50, h * 5>>, <<w * 30, h * 50>>, <<w * 22, h * 75>>,
       <<w * 50, h * 105>>, <<w * 78, h * 75>>, <<w * 70, h * 50>> >>

\* Mutant of points: the two left vertices given the x of the right ones
points_onesided(w, h) ==
    << <<w * 50, h * 5>>, <<w * 70, h * 50>>, <<w * 78, h * 75>>,
       <<w * 50, h * 95>>, <<w * 78, h * 75>>, <<w * 70, h * 50>> >>

\* The six vertices of the droplet for a w by h image, in hundredths of a pixel
points(w, h) ==
    << <<w * 50, h * 5>>,     \* top centre
       <<w * 30, h * 50>>,    \* upper left bulge
       <<w * 22, h * 75>>,    \* lower left bulge
       <<w * 50, h * 95>>,    \* bottom point
       <<w * 78, h * 75>>,    \* lower right bulge
       <<w * 70, h * 50>> >>  \* upper right bulge

\* Mutant of draw_raindrop: the canvas size hard-coded to the largest icon
draw_raindrop_fixed(size, bg_color, fg_color) ==
    LET im == Image_new("RGBA", <<128, 128>>, bg_color) IN
    IF IsError(im) THEN im
    ELSE draw_polygon(im, points(128, 128), fg_color)

\* Mutant of draw_raindrop: a negative size is clamped to 0 before use
draw_raindrop_clamped(size, bg_color, fg_color) ==
    LET sz == IF size < 0 THEN 0 ELSE size
        im == Image_new("RGBA", <<sz, sz>>, bg_color)
    IN IF IsError(im) THEN im
       ELSE draw_polygon(im, points(sz, sz), fg_color)

\* Mutant of draw_raindrop: an icon already on disk for the size is loaded
\* and returned instead of being drawn
draw_raindrop_cached(size, bg_color, fg_color) ==
    LET p == <<"ext", "icons", "icon" \o ToString(size) \o ".png">>
        im == Image_new("RGBA", <<size, size>>, bg_color)
    IN IF p \in DOMAIN files /\ files[p].format = "PNG"
       THEN [mode |-> files[p].colortype, size |-> <<files[p].width, files[p].height>>,
             bg |-> files[p].bg, shapes |-> files[p].shapes]
       ELSE IF IsError(im) THEN im
       ELSE draw_polygon(im, points(size, size), fg_color)

\* draw_raindrop(size, bg_color, fg_color): the image, or the error raised
draw_raindrop(size, bg_color, fg_color) ==
    LET im == Image_new("RGBA", <<size, size>>, bg_color) IN
    IF IsError(im) THEN im
    ELSE draw_polygon(im, points(size, size), fg_color)

----------------------------------------------------------------------------
(* os and Image.save, on a file system fs = [dirs, files] *)

os_path_dirname(p) == SubSeq(p, 1, Len(p) - 1)
os_path_join(p, name) == Append(p, name)

Prefixes(p) == {SubSeq(p, 1, k) : k \in 0..Len(p)}

\* Mutant of os_makedirs: exist_ok is ignored, as if it were False
os_makedirs_strict(fs, p, exist_ok) ==
    IF p \in fs.dirs \/ p \in DOMAIN fs.files THEN [error |-> "FileExistsError"]
    ELSE IF \E q \in Prefixes(p) : q \in DOMAIN fs.files
         THEN [error |-> "NotADirectoryError"]
    ELSE [fs EXCEPT !.dirs = @ \cup Prefixes(p)]

\* Mutant of os_makedirs: an existing directory is emptied first
os_makedirs_clean(fs, p, exist_ok) ==
    IF p \in DOMAIN fs.files THEN [error |-> "FileExistsError"]
    ELSE IF \E q \in Prefixes(p) : q \in DOMAIN fs.files
         THEN [error |-> "NotADirectoryError"]
    ELSE [dirs |-> fs.dirs \cup Prefixes(p),
          files |-> [q \in {f \in DOMAIN fs.files : SubSeq(f, 1, Len(f) - 1) # p}
                       |-> fs.files[q]]]

\* os.makedirs(p, exist_ok=...): creates p and its missing ancestors
os_makedirs(fs, p, exist_ok) ==
    IF p \in fs.dirs
    THEN IF exist_ok THEN fs ELSE [error |-> "FileExistsError"]
    ELSE IF p \in DOMAIN fs.files THEN [error |-> "FileExistsError"]
    ELSE IF \E q \in Prefixes(p) : q \in DOMAIN fs.files
         THEN [error |-> "NotADirectoryError"]
    ELSE [fs EXCEPT !.dirs = @ \cup Prefixes(p)]

\* The PNG encoding of an image: the header fields and the raster
PngEncode(im) ==
    [format |-> "PNG", width |-> im.size[1], height |-> im.size[2],
     colortype |-> im.mode, bg |-> im.bg, shapes |-> im.shapes]

\* Image.open(...) of a file written by PngEncode
PngDecode(f) ==
    [mode |-> f.colortype, size |-> <<f.width, f.height>>, bg |-> f.bg,
     shapes |-> f.shapes]

\* What a write that fails half way leaves behind
Partial == [format |-> "partial"]

\* img.save(p), p ending in ".png": the file is created or overwritten
Image_save(fs, im, p) ==
    IF os_path_dirname(p) \notin fs.dirs THEN [error |-> "FileNotFoundError"]
    ELSE IF p \in fs.dirs THEN [error |-> "IsADirectoryError"]
    ELSE [fs EXCEPT !.files = (p :> PngEncode(im)) @@ @]

----------------------------------------------------------------------------
(* generate_icons.py: main *)

sizes == <<16, 48, 128>>

\* __file__
ScriptFile == <<"ext", "generate_icons.py">>

output_dir == os_path_join(os_path_dirname(ScriptFile), "icons")

\* Mutant of icon_name: the size left out of the name
icon_name_plain(sz) == "icon" \o ".png"

\* f"icon{sz}.png"
icon_name(sz) == "icon" \o ToString(sz) \o ".png"

icon_path(sz) == os_path_join(output_dir, icon_name(sz))

FS == [dirs |-> dirs, files |-> files]

----------------------------------------------------------------------------
(* Initial states *)

\* Entries the output directory may hold before the first run: two files the
\* script never names, and a stale icon16.png of the wrong dimensions.
OldEntries ==
    (os_path_join(output_dir, "README.txt") :> [format |-> "text"])
    @@ (os_path_join(output_dir, "icon32.png")
          :> PngEncode(Image_new("RGBA", <<32, 32>>, DefaultFg)))
    @@ (os_path_join(output_dir, "icon16.png")
          :> PngEncode(Image_new("RGBA", <<32, 32>>, DefaultFg)))

BaseDirs == Prefixes(os_path_dirname(ScriptFile))
BaseFiles == ScriptFile :> [format |-> "py"]

Restrict(f, S) == [x \in S |-> f[x]]

\* The script's directory exists; "icons" is absent, a regular file, or a
\* directory holding any subset of OldEntries.
InitFs ==
    \/ dirs = BaseDirs /\ files = BaseFiles
    \/ dirs = BaseDirs /\ files = BaseFiles @@ (output_dir :> [format |-> "text"])
    \/ /\ dirs = BaseDirs \cup {output_dir}
       /\ \E S \in SUBSET DOMAIN OldEntries : files = BaseFiles @@ Restrict(OldEntries, S)

InitMain ==
    /\ pc = "start"
    /\ idx = 0
    /\ img = None
    /\ out_path = <<>>
    /\ stdout = <<>>
    /\ err = "none"
    /\ run = 1
    /\ faulted = FALSE
    /\ written = <<>>
    /\ start = FS
    /\ prev = None

NoCalls == args = None /\ ret = None /\ first = None /\ calls = 0 /\ wroteAt = 0

Init == InitFs /\ InitMain /\ NoCalls

----------------------------------------------------------------------------
(* main, statement by statement *)

Fail(e) ==
    /\ pc' = "failed"
    /\ err' = e

\* lines 52-54: sizes, output_dir, os.makedirs(output_dir, exist_ok=True)
Makedirs ==
    /\ pc = "start"
    /\ \E ok \in BOOLEAN :
         IF ~ok
         THEN /\ Fail("PermissionError")
              /\ faulted' = TRUE
              /\ UNCHANGED <<dirs, files, idx>>
         ELSE LET r == os_makedirs(FS, output_dir, TRUE) IN
              IF IsError(r)
              THEN /\ Fail(r.error)
                   /\ UNCHANGED <<dirs, files, idx, faulted>>
              ELSE /\ dirs' = r.dirs
                   /\ files' = r.files
                   /\ idx' = 1
                   /\ pc' = "for"
                   /\ UNCHANGED <<err, faulted>>
    /\ UNCHANGED <<img, out_path, stdout, run, written, start, prev, callVars>>

\* line 55: for sz in sizes
For ==
    /\ pc = "for"
    /\ pc' = IF idx <= Len(sizes) THEN "render" ELSE "done"
    /\ UNCHANGED <<dirs, files, idx, img, out_path, stdout, err, run, faulted,
                   written, start, prev, callVars>>

\* line 56: img = draw_raindrop(sz)
Render ==
    /\ pc = "render"
    /\ LET r == draw_raindrop(sizes[idx], DefaultBg, DefaultFg) IN
       IF IsError(r)
       THEN Fail(r.error) /\ UNCHANGED img
       ELSE img' = r /\ pc' = "path" /\ UNCHANGED err
    /\ UNCHANGED <<dirs, files, idx, out_path, stdout, run, faulted, written,
                   start, prev, callVars>>

\* Mutant of Path: the path is reported without the image being saved
Path_unsaved ==
    /\ pc = "path"
    /\ out_path' = icon_path(sizes[idx])
    /\ pc' = "print"
    /\ UNCHANGED <<dirs, files, idx, img, stdout, err, run, faulted, written,
                   start, prev, callVars>>

\* line 57: out_path = os.path.join(output_dir, f"icon{sz}.png")
Path ==
    /\ pc = "path"
    /\ out_path' = icon_path(sizes[idx])
    /\ pc' = "save"
    /\ UNCHANGED <<dirs, files, idx, img, stdout, err, run, faulted, written,
                   start, prev, callVars>>

\* Mutant of Save: a failed save is caught and the loop goes on
Save_swallow ==
    /\ pc = "save"
    /\ \E outcome \in {"ok", "refused", "partial"} :
         IF outcome = "ok"
         THEN /\ files' = (out_path :> PngEncode(img)) @@ files
              /\ written' = Append(written, sizes[idx])
              /\ pc' = "print"
              /\ UNCHANGED <<idx, faulted>>
         ELSE /\ faulted' = TRUE
              /\ files' = IF outcome = "partial"
                          THEN (out_path :> Partial) @@ files
                          ELSE files
              /\ idx' = idx + 1
              /\ pc' = "for"
              /\ UNCHANGED written
    /\ UNCHANGED <<dirs, err, img, out_path, stdout, run, start, prev, callVars>>

\* line 58: img.save(out_path).  The environment may refuse the open (the
\* file is as it was) or fail the write half way (a partial file is left).
Save ==
    /\ pc = "save"
    /\ \E outcome \in {"ok", "refused", "partial"} :
         IF outcome = "ok"
         THEN LET r == Image_save(FS, img, out_path) IN
              IF IsError(r)
              THEN /\ Fail(r.error)
                   /\ UNCHANGED <<dirs, files, faulted, written>>
              ELSE /\ dirs' = r.dirs
                   /\ files' = r.files
                   /\ written' = Append(written, sizes[idx])
                   /\ pc' = "print"
                   /\ UNCHANGED <<err, faulted>>
         ELSE /\ Fail("OSError")
              /\ faulted' = TRUE
              /\ files' = IF outcome = "partial"
                          THEN (out_path :> Partial) @@ files
                          ELSE files
              /\ UNCHANGED <<dirs, written>>
    /\ UNCHANGED <<idx, img, out_path, stdout, run, start, prev, callVars>>

\* line 59: print(f"Generated {out_path}"), and on to the next size
Report ==
    /\ pc = "print"
    /\ stdout' = Append(stdout, <<"Generated ", out_path>>)
    /\ idx' = idx + 1
    /\ pc' = "for"
    /\ UNCHANGED <<dirs, files, img, out_path, err, run, faulted, written,
                   start, prev, callVars>>

\* lines 62-63: the script is invoked again after a run has ended
Rerun ==
    /\ pc \in {"done", "failed"}
    /\ run < MaxRuns
    /\ prev' = [status |-> pc, dirs |-> dirs, files |-> files]
    /\ start' = FS
    /\ run' = run + 1
    /\ pc' = "start"
    /\ idx' = 0
    /\ img' = None
    /\ out_path' = <<>>
    /\ stdout' = <<>>
    /\ err' = "none"
    /\ faulted' = FALSE
    /\ written' = <<>>
    /\ UNCHANGED <<dirs, files, callVars>>

Next ==
    \/ Makedirs
    \/ For
    \/ Render
    \/ Path
    \/ Save
    \/ Report
    \/ Rerun

Spec == Init /\ [][Next]_vars

----------------------------------------------------------------------------
(* main as one step, and a direct caller of draw_raindrop *)

RECURSIVE save_all(_, _)
\* lines 55-58 from the k-th size on, with no failure of the environment
save_all(fs, k) ==
    IF k > Len(sizes) THEN fs
    ELSE LET im == draw_raindrop(sizes[k], DefaultBg, DefaultFg) IN
         IF IsError(im) THEN fs
         ELSE LET w == Image_save(fs, im, icon_path(sizes[k])) IN
              IF IsError(w) THEN fs ELSE save_all(w, k + 1)

\* The file system a whole run of main leaves, with no failure of the environment
main_effect(fs) ==
    LET r == os_makedirs(fs, output_dir, TRUE) IN
    IF IsError(r) THEN fs ELSE save_all(r, 1)

\* Colour specifiers a direct caller passes: a default, a short hex form and
\* a string that is no colour
Colors == {DefaultBg, <<"#", "F", "f", "f">>, <<"n", "o", "p", "e">>}

\* "icons" is absent, or a directory holding all of OldEntries
InitFsRender ==
    /\ \/ dirs = BaseDirs /\ files = BaseFiles
       \/ dirs = BaseDirs \cup {output_dir} /\ files = BaseFiles @@ OldEntries

InitRender ==
    /\ InitFsRender
    /\ InitMain
    /\ args \in [size : (-MinSize)..MaxSize, bg : Colors, fg : Colors]
    /\ ret = None
    /\ first = None
    /\ calls = 0
    /\ wroteAt = 0

\* draw_raindrop(size, bg_color, fg_color) called from outside main
Call ==
    /\ calls < MaxCalls
    /\ ret' = draw_raindrop(args.size, args.bg, args.fg)
    /\ first' = IF calls = 0 THEN ret' ELSE first
    /\ calls' = calls + 1
    /\ UNCHANGED <<dirs, files, mainVars, args, wroteAt>>

\* A run of the script between two calls
MainRun ==
    /\ LET r == main_effect(FS) IN
       /\ dirs' = r.dirs
       /\ files' = r.files
       /\ wroteAt' = IF r.files # files THEN calls ELSE wroteAt
    /\ UNCHANGED <<mainVars, args, ret, first, calls>>

NextRender ==
    \/ Call
    \/ MainRun

SpecRender == InitRender /\ [][NextRender]_vars

----------------------------------------------------------------------------
(* Properties *)

Children(fs, d) ==
    {q \in fs.dirs \cup DOMAIN fs.files : Len(q) = Len(d) + 1 /\ SubSeq(q, 1, Len(d)) = d}

IconsDir == <<"ext", "icons">>

ThreeIcons ==
    {<<"ext", "icons", "icon16.png">>, <<"ext", "icons", "icon48.png">>,
     <<"ext", "icons", "icon128.png">>}

StartedAbsentOrEmpty ==
    /\ IconsDir \notin DOMAIN start.files
    /\ Children(start, IconsDir) = {}

\* C1: when main has run to completion from an output directory that was
\* absent or empty, the directory exists and holds exactly icon16.png,
\* icon48.png and icon128.png, all regular files.
C1_ExactlyThreeFiles ==
    (pc = "done" /\ StartedAbsentOrEmpty) =>
        /\ IconsDir \in dirs
        /\ Children(FS, IconsDir) = ThreeIcons
        /\ ThreeIcons \subseteq DOMAIN files

C1_Witness ==
    /\ pc = "done"
    /\ IconsDir \notin start.dirs
    /\ IconsDir \in dirs
    /\ Cardinality(Children(FS, IconsDir)) = 3

\* The file at path p is the same, or as absent, in both file systems
SameFile(f, g, p) ==
    /\ (p \in DOMAIN f) = (p \in DOMAIN g)
    /\ p \in DOMAIN f => f[p] = g[p]

\* C2: a failed makedirs or save ends the run there: the step that failed
\* leads to the failed state with an error set; in the failed state the saved
\* and the reported sizes are those before the failed one, the files of all
\* later sizes are as they were when the run started, and the run takes no
\* further step (only a new invocation follows).
C2_FailureStopsRun ==
    /\ [](pc = "failed" =>
            /\ err # "none"
            /\ Len(written) = (IF idx = 0 THEN 0 ELSE idx - 1)
            /\ Len(stdout) = Len(written)
            /\ \A j \in 1..Len(sizes) :
                  j > idx /\ idx > 0 => SameFile(files, start.files, icon_path(sizes[j])))
    /\ [][(faulted' /\ ~faulted) => (pc' = "failed" /\ err' # "none")]_vars
    /\ [][(pc = "failed" /\ run' = run) =>
            UNCHANGED <<dirs, files, stdout, written, pc, idx>>]_vars

C2_Witness ==
    /\ pc = "failed"
    /\ faulted
    /\ idx = 2
    /\ written = <<16>>
    /\ <<"ext", "icons", "icon128.png">> \notin DOMAIN files

\* C3: at every point of a run, completed or failed, every file other than
\* icon16.png, icon48.png and icon128.png of the output directory exists
\* exactly if it did when the run started, with the same content, and the
\* set of directories has changed by the output directory at most.
C3_OtherFilesUntouched ==
    /\ \A p \in (DOMAIN files \cup DOMAIN start.files) \ ThreeIcons :
          SameFile(files, start.files, p)
    /\ start.dirs \subseteq dirs
    /\ dirs \subseteq start.dirs \cup {IconsDir}

C3_Witness ==
    /\ pc \in {"done", "failed"}
    /\ written # <<>>
    /\ <<"ext", "icons", "README.txt">> \in DOMAIN files
    /\ <<"ext", "icons", "icon32.png">> \in DOMAIN files
    /\ <<"ext", "icons", "icon16.png">> \in DOMAIN start.files
    /\ files[<<"ext", "icons", "icon16.png">>] # start.files[<<"ext", "icons", "icon16.png">>]

\* C4: a run that follows a completed run, with no I/O failure of the
\* environment, does not fail, and when it has completed the file system
\* is the one the previous run left.
C4_Idempotent ==
    (run >= 2 /\ ~IsNone(prev) /\ prev.status = "done" /\ ~faulted) =>
        /\ pc # "failed"
        /\ pc = "done" => (files = prev.files /\ dirs = prev.dirs)

C4_Witness ==
    /\ run = 2
    /\ ~IsNone(prev)
    /\ prev.status = "done"
    /\ pc = "done"
    /\ ThreeIcons \subseteq DOMAIN prev.files
    /\ files = prev.files

IconFile(s) ==
    CASE s = 16 -> <<"ext", "icons", "icon16.png">>
      [] s = 48 -> <<"ext", "icons", "icon48.png">>
      [] s = 128 -> <<"ext", "icons", "icon128.png">>

\* C7: when main has completed, for every size s of the list the file
\* icon<s>.png is the PNG encoding of draw_raindrop(s) with the default
\* colours, an RGBA image, and its width and height are both s.
C7_FileHoldsImageOfItsSize ==
    pc = "done" =>
        \A k \in 1..Len(sizes) :
            LET s == sizes[k]
                p == IconFile(s)
            IN /\ p \in DOMAIN files
               /\ files[p] = PngEncode(draw_raindrop(s, DefaultBg, DefaultFg))
               /\ files[p].format = "PNG"
               /\ files[p].width = s
               /\ files[p].height = s
               /\ PngDecode(files[p]).size = <<s, s>>
               /\ PngDecode(files[p]).mode = "RGBA"

C7_Witness ==
    /\ pc = "done"
    /\ \A k \in 1..Len(sizes) : IconFile(sizes[k]) \in DOMAIN files
    /\ files[IconFile(48)].width = 48
    /\ files[IconFile(48)].height = 48

Blue == [rgba |-> <<74, 144, 226, 255>>]
White == [rgba |-> <<255, 255, 255, 255>>]

\* C8: every image main gets from draw_raindrop is 16, 48 or 128 pixels
\* square, has the colour #4A90E2 at its four corner pixels and the colour
\* #FFFFFF at its centre pixel (s/2, s/2).
C8_CornersAndCentre ==
    ~IsNone(img) =>
        LET s == img.size[1] IN
        /\ s \in {16, 48, 128}
        /\ img.size[2] = s
        /\ getpixel(img, 0, 0) = Blue
        /\ getpixel(img, s - 1, 0) = Blue
        /\ getpixel(img, 0, s - 1) = Blue
        /\ getpixel(img, s - 1, s - 1) = Blue
        /\ getpixel(img, s \div 2, s \div 2) = White

C8_Witness ==
    /\ pc = "print"
    /\ ~IsNone(img)
    /\ img.size = <<128, 128>>
    /\ getpixel(img, 64, 64) = White
    /\ getpixel(img, 127, 127) = Blue

\* The lines main prints for the first n sizes
Lines(n) == [k \in 1..n |-> <<"Generated ", IconFile(sizes[k])>>]

\* C10: the steps of a run are ordered.  At every point the sizes saved so
\* far are a prefix of the size list and the lines printed are those of the
\* same prefix or of the prefix one shorter; a file is saved only when the
\* output directory exists and every earlier save has been reported; a line is
\* printed only for the file saved last, which then holds the image.
C10_StrictOrder ==
    /\ [](/\ Len(written) <= Len(sizes)
          /\ written = SubSeq(sizes, 1, Len(written))
          /\ Len(stdout) \in {Len(written), Len(written) - 1}
          /\ stdout = Lines(Len(stdout))
          /\ written # <<>> => IconsDir \in dirs)
    /\ [][(written' # written /\ run' = run) =>
            /\ IconsDir \in dirs
            /\ Len(stdout) = Len(written)
            /\ written' = Append(written, sizes[Len(written) + 1])]_vars
    /\ [][(stdout' # stdout /\ run' = run) =>
            /\ Len(written) = Len(stdout) + 1
            /\ stdout' = Append(stdout, <<"Generated ", IconFile(sizes[Len(written)])>>)
            /\ IconFile(sizes[Len(written)]) \in DOMAIN files
            /\ files[IconFile(sizes[Len(written)])] = PngEncode(img)]_vars

C10_Witness ==
    /\ pc = "print"
    /\ written = <<16, 48>>
    /\ Len(stdout) = 1
    /\ stdout[1] = <<"Generated ", <<"ext", "icons", "icon16.png">> >>

----------------------------------------------------------------------------
(* Properties of draw_raindrop, under SpecRender *)

Parses(color) == ~IsError(getcolor(color))

\* C5, as claimed: a call with size <= 0 fails and returns no image.
C5_NonPositiveSizeFails ==
    (calls >= 1 /\ args.size <= 0) => (IsError(ret) /\ ret.error = "ValueError")

\* C5, amended: a call with size < 0 fails with a ValueError and returns no
\* image; a call with size 0 and two parseable colours does not fail and
\* returns an image of 0 by 0 pixels (with an unparseable colour it fails
\* with a ValueError).
C5_NegativeSizeFails ==
    calls >= 1 =>
        /\ args.size < 0 => (IsError(ret) /\ ret.error = "ValueError")
        /\ args.size = 0 =>
              IF Parses(args.bg) /\ Parses(args.fg)
              THEN ~IsError(ret) /\ ret.size = <<0, 0>>
              ELSE IsError(ret) /\ ret.error = "ValueError"

C5_Witness ==
    /\ calls >= 1
    /\ args.size = 0
    /\ ~IsError(ret)
    /\ ret.size = <<0, 0>>

VerticesInside(s) ==
    /\ Len(points(s, s)) = 6
    /\ \A k \in 1..Len(points(s, s)) :
          /\ 0 <= points(s, s)[k][1] /\ points(s, s)[k][1] <= 100 * s
          /\ 0 <= points(s, s)[k][2] /\ points(s, s)[k][2] <= 100 * s

\* C6: for every positive size s a caller passes, and for every size of the
\* size list, the six vertices draw_raindrop computes have both coordinates
\* in [0, s] (in hundredths: in [0, 100 s]), and so have the vertices of
\* the polygon drawn on the returned image.
C6_VerticesOnCanvas ==
    /\ \A k \in 1..Len(sizes) : VerticesInside(sizes[k])
    /\ args.size > 0 => VerticesInside(args.size)
    /\ (calls >= 1 /\ args.size > 0 /\ ~IsError(ret)) =>
          /\ Len(ret.shapes) = 1
          /\ \A k \in 1..Len(ret.shapes[1].xy) :
                /\ ret.shapes[1].xy[k][1] \in 0..args.size
                /\ ret.shapes[1].xy[k][2] \in 0..args.size

C6_Witness ==
    /\ calls >= 1
    /\ args.size > 1
    /\ ~IsError(ret)
    /\ Len(ret.shapes) = 1
    /\ ret.shapes[1].xy[4][2] > 0

====
